---- MODULE Spec2Model ----
(***************************************************************************)
(* Model of the wallet crate of bitcoin-sdk (wallet/src/btg.rs): the       *)
(* sighash flag codec, the legacy signature digest, the raw transaction    *)
(* builder (prepare_rawtx, create_rawtx) and the signer (sign_rawtx).      *)
(*                                                                         *)
(* Machine integers keep their width.  A u32 (or i32) is a pair of 16-bit  *)
(* limbs <<hi, lo>> and a u64 is four 16-bit limbs, most significant       *)
(* first, so that 0xffffffff and 2^64 - 1 are representable.               *)
(***************************************************************************)
EXTENDS Integers, Sequences, FiniteSets, TLC

\* ------------------------------------------------------------------------
\* Bounds of the model
\* ------------------------------------------------------------------------
MaxInputs == 2
MaxOutputs == 2
MaxVins == 2
MaxVouts == 2
MaxAccounts == 2

\* ------------------------------------------------------------------------
\* Machine integers
\* ------------------------------------------------------------------------
Limb == 256 * 256

U32(hi, lo) == <<hi, lo>>

U64(n) == <<0, 0, 0, n>>

RECURSIVE BitAnd(_, _, _)
BitAnd(a, b, bits) ==
    IF bits = 0 THEN 0
    ELSE (a % 2) * (b % 2) + 2 * BitAnd(a \div 2, b \div 2, bits - 1)

\* n & m on u32
AndU32(n, m) == <<BitAnd(n[1], m[1], 16), BitAnd(n[2], m[2], 16)>>

\* a + b on u64: the wrapped sum and whether the addition overflowed
AddU64(a, b) ==
    LET s4 == a[4] + b[4]
        s3 == a[3] + b[3] + (s4 \div Limb)
        s2 == a[2] + b[2] + (s3 \div Limb)
        s1 == a[1] + b[1] + (s2 \div Limb)
    IN  [sum |-> <<s1 % Limb, s2 % Limb, s3 % Limb, s4 % Limb>>,
         overflow |-> s1 \div Limb # 0]

\* a < b on u64
LtU64(a, b) ==
    \E k \in 1..4 : a[k] < b[k] /\ \A j \in 1..(k - 1) : a[j] = b[j]

\* ------------------------------------------------------------------------
\* SigHashType and its codec
\* ------------------------------------------------------------------------
SigHashTypes == {"All", "None", "Single", "AllPlusAnyoneCanPay",
                 "NonePlusAnyoneCanPay", "SinglePlusAnyoneCanPay"}

BaseTypes == {"All", "None", "Single"}

split_anyonecanpay_flag_swapped(t) ==
    IF t = "All" THEN <<"All", FALSE>>
    ELSE IF t = "None" THEN <<"None", FALSE>>
    ELSE IF t = "Single" THEN <<"Single", TRUE>>
    ELSE IF t = "AllPlusAnyoneCanPay" THEN <<"All", TRUE>>
    ELSE IF t = "NonePlusAnyoneCanPay" THEN <<"None", TRUE>>
    ELSE <<"Single", FALSE>>

split_anyonecanpay_flag(t) ==
    IF t = "All" THEN <<"All", FALSE>>
    ELSE IF t = "None" THEN <<"None", FALSE>>
    ELSE IF t = "Single" THEN <<"Single", FALSE>>
    ELSE IF t = "AllPlusAnyoneCanPay" THEN <<"All", TRUE>>
    ELSE IF t = "NonePlusAnyoneCanPay" THEN <<"None", TRUE>>
    ELSE <<"Single", TRUE>>

\* the mask of from_u32 narrowed to the low five bits
from_u32_mask1f(n) ==
    LET x == AndU32(n, U32(0, 31))
    IN  IF x = U32(0, 1) THEN "All"
        ELSE IF x = U32(0, 2) THEN "None"
        ELSE IF x = U32(0, 3) THEN "Single"
        ELSE IF x = U32(0, 129) THEN "AllPlusAnyoneCanPay"
        ELSE IF x = U32(0, 130) THEN "NonePlusAnyoneCanPay"
        ELSE IF x = U32(0, 131) THEN "SinglePlusAnyoneCanPay"
        ELSE IF AndU32(x, U32(0, 128)) = U32(0, 128) THEN "AllPlusAnyoneCanPay"
        ELSE "All"

from_u32(n) ==
    LET x == AndU32(n, U32(0, 159))
    IN  IF x = U32(0, 1) THEN "All"
        ELSE IF x = U32(0, 2) THEN "None"
        ELSE IF x = U32(0, 3) THEN "Single"
        ELSE IF x = U32(0, 129) THEN "AllPlusAnyoneCanPay"
        ELSE IF x = U32(0, 130) THEN "NonePlusAnyoneCanPay"
        ELSE IF x = U32(0, 131) THEN "SinglePlusAnyoneCanPay"
        ELSE IF AndU32(x, U32(0, 128)) = U32(0, 128) THEN "AllPlusAnyoneCanPay"
        ELSE "All"

as_u32(t) ==
    IF t = "All" THEN U32(0, 1)
    ELSE IF t = "None" THEN U32(0, 2)
    ELSE IF t = "Single" THEN U32(0, 3)
    ELSE IF t = "AllPlusAnyoneCanPay" THEN U32(0, 129)
    ELSE IF t = "NonePlusAnyoneCanPay" THEN U32(0, 130)
    ELSE U32(0, 131)

\* ------------------------------------------------------------------------
\* chain types: OutPoint, TransactionInput, TransactionOutput, Transaction
\* ------------------------------------------------------------------------
Bytes32(b) == [k \in 1..32 |-> b]

Bytes20(b) == [k \in 1..20 |-> b]

SEQUENCE_FINAL == U32(65535, 65535)

OutPoint(hash, index) == [hash |-> hash, index |-> index]

TransactionInput(previous_output, script_sig, sequence) ==
    [previous_output |-> previous_output, script_sig |-> script_sig,
     sequence |-> sequence, script_witness |-> <<>>]

TransactionOutput(value, script_pubkey) ==
    [value |-> value, script_pubkey |-> script_pubkey]

\* TransactionOutput::default(), as used by the Single branch of signature_hash
TransactionOutputDefault == TransactionOutput(U64(0), <<>>)

Transaction(version, inputs, outputs, lock_time) ==
    [version |-> version, inputs |-> inputs, outputs |-> outputs,
     lock_time |-> lock_time]

\* ------------------------------------------------------------------------
\* serialization::serialize (wire format: little-endian integers,
\* compact-size prefixed lists and scripts)
\* ------------------------------------------------------------------------
LE16(l) == <<l % 256, l \div 256>>

LE32(n) == LE16(n[2]) \o LE16(n[1])

LE64(v) == LE16(v[4]) \o LE16(v[3]) \o LE16(v[2]) \o LE16(v[1])

CompactInt(n) == IF n < 253 THEN <<n>> ELSE <<253>> \o LE16(n)

RECURSIVE Concat(_)
Concat(ss) == IF ss = <<>> THEN <<>> ELSE Head(ss) \o Concat(Tail(ss))

SerializeInput(in) ==
    in.previous_output.hash \o LE32(in.previous_output.index)
        \o CompactInt(Len(in.script_sig)) \o in.script_sig \o LE32(in.sequence)

SerializeOutput(out) ==
    LE64(out.value) \o CompactInt(Len(out.script_pubkey)) \o out.script_pubkey

Serialize(t) ==
    LE32(t.version)
        \o CompactInt(Len(t.inputs))
        \o Concat([k \in 1..Len(t.inputs) |-> SerializeInput(t.inputs[k])])
        \o CompactInt(Len(t.outputs))
        \o Concat([k \in 1..Len(t.outputs) |-> SerializeOutput(t.outputs[k])])
        \o LE32(t.lock_time)

\* bitcrypto::dhash256 as an ideal (collision-free) hash: the digest is the
\* term "double hash of these bytes"
dhash256(bytes) == [dhash256 |-> bytes]

\* H256::from(v) of a 32-byte array
H256From(v) == [h256 |-> v]

\* ------------------------------------------------------------------------
\* signature_hash
\* ------------------------------------------------------------------------
\* input_index is 0-based as in the source; sequences here are 1-based

sighash_single_bug_strict(t, input_index, sighash) ==
    sighash = "Single" /\ input_index > Len(t.outputs)

sighash_single_bug(t, input_index, sighash) ==
    sighash = "Single" /\ input_index >= Len(t.outputs)

SingleBugValue == H256From(<<1>> \o [k \in 1..31 |-> 0])

\* the anyone-can-pay branch dropped: always one scratch input per input
tx_tmp_inputs_all(t, input_index, script_pubkey, sighash, anyone_can_pay) ==
    [n \in 1..Len(t.inputs) |->
        TransactionInput(
            t.inputs[n].previous_output,
            IF n - 1 = input_index THEN script_pubkey ELSE <<>>,
            IF n - 1 # input_index /\ (sighash = "Single" \/ sighash = "None")
                THEN U32(0, 0) ELSE t.inputs[n].sequence)]

\* the sequence of the other inputs is never zeroed
tx_tmp_inputs_keepseq(t, input_index, script_pubkey, sighash, anyone_can_pay) ==
    IF anyone_can_pay
    THEN <<TransactionInput(t.inputs[input_index + 1].previous_output,
                            script_pubkey,
                            t.inputs[input_index + 1].sequence)>>
    ELSE [n \in 1..Len(t.inputs) |->
            TransactionInput(
                t.inputs[n].previous_output,
                IF n - 1 = input_index THEN script_pubkey ELSE <<>>,
                t.inputs[n].sequence)]

\* the other inputs keep the script_sig they have
tx_tmp_inputs_keepsig(t, input_index, script_pubkey, sighash, anyone_can_pay) ==
    IF anyone_can_pay
    THEN <<TransactionInput(t.inputs[input_index + 1].previous_output,
                            script_pubkey,
                            t.inputs[input_index + 1].sequence)>>
    ELSE [n \in 1..Len(t.inputs) |->
            TransactionInput(
                t.inputs[n].previous_output,
                IF n - 1 = input_index THEN script_pubkey
                ELSE t.inputs[n].script_sig,
                IF n - 1 # input_index /\ (sighash = "Single" \/ sighash = "None")
                    THEN U32(0, 0) ELSE t.inputs[n].sequence)]

tx_tmp_inputs(t, input_index, script_pubkey, sighash, anyone_can_pay) ==
    IF anyone_can_pay
    THEN <<TransactionInput(t.inputs[input_index + 1].previous_output,
                            script_pubkey,
                            t.inputs[input_index + 1].sequence)>>
    ELSE [n \in 1..Len(t.inputs) |->
            TransactionInput(
                t.inputs[n].previous_output,
                IF n - 1 = input_index THEN script_pubkey ELSE <<>>,
                IF n - 1 # input_index /\ (sighash = "Single" \/ sighash = "None")
                    THEN U32(0, 0) ELSE t.inputs[n].sequence)]

Min(a, b) == IF a < b THEN a ELSE b

\* the None arm keeps the outputs
tx_tmp_outputs_keep(t, input_index, sighash) ==
    IF sighash = "Single"
    THEN [n \in 1..Min(input_index + 1, Len(t.outputs)) |->
            IF n - 1 = input_index THEN t.outputs[n] ELSE TransactionOutputDefault]
    ELSE t.outputs

tx_tmp_outputs(t, input_index, sighash) ==
    IF sighash = "All" THEN t.outputs
    ELSE IF sighash = "Single"
    THEN [n \in 1..Min(input_index + 1, Len(t.outputs)) |->
            IF n - 1 = input_index THEN t.outputs[n] ELSE TransactionOutputDefault]
    ELSE <<>>

\* the scratch transaction tx_tmp
tx_tmp(t, input_index, script_pubkey, sighash_u32) ==
    LET split == split_anyonecanpay_flag(from_u32(sighash_u32))
    IN  Transaction(t.version,
                    tx_tmp_inputs(t, input_index, script_pubkey, split[1], split[2]),
                    tx_tmp_outputs(t, input_index, split[1]),
                    t.lock_time)

\* the bytes handed to dhash256
tx_raw(t, input_index, script_pubkey, sighash_u32) ==
    Serialize(tx_tmp(t, input_index, script_pubkey, sighash_u32)) \o <<1, 0, 0, 0>>

NoDigest == H256From(<<>>)

\* status "panic" is the failed assert!(input_index < tx.inputs.len());
\* hashed tells whether tx_raw was built and double-hashed
signature_hash(t, input_index, script_pubkey, sighash_u32) ==
    LET sighash == split_anyonecanpay_flag(from_u32(sighash_u32))[1]
    IN  IF ~(input_index < Len(t.inputs))
        THEN [status |-> "panic", hashed |-> FALSE, tx_raw |-> <<>>,
              digest |-> NoDigest]
        ELSE IF sighash_single_bug(t, input_index, sighash)
        THEN [status |-> "ok", hashed |-> FALSE, tx_raw |-> <<>>,
              digest |-> SingleBugValue]
        ELSE [status |-> "ok", hashed |-> TRUE,
              tx_raw |-> tx_raw(t, input_index, script_pubkey, sighash_u32),
              digest |-> dhash256(tx_raw(t, input_index, script_pubkey, sighash_u32))]

\* ------------------------------------------------------------------------
\* State
\* ------------------------------------------------------------------------
VARIABLES
    codec_src,        \* the SigHashType as_u32 was applied to, or "none"
    codec_n,          \* the u32 flag handed to from_u32
    codec_out,        \* result of from_u32(..).split_anyonecanpay_flag()
    tx,               \* the Transaction the caller holds
    sh_call,          \* arguments of the signature_hash call
    sh_out,           \* its result
    vins,             \* Vec<TxInputReq>
    req_vouts,        \* Vec<TxOutputReq>
    overflow_checks,  \* whether the build panics on integer overflow
    prepare_out,      \* result of prepare_rawtx
    create_out,       \* result of create_rawtx
    accounts,         \* Vec<Account> handed to sign_rawtx
    tx_before,        \* tx as it was when sign_rawtx was called
    sign_pc,          \* position inside sign_rawtx
    sign_i,           \* loop variable i of sign_rawtx
    sign_out,         \* result of sign_rawtx
    sign_log          \* history of the loop: <<index written, digest signed>>

vars == <<codec_src, codec_n, codec_out, tx, sh_call, sh_out, vins, req_vouts,
          overflow_checks, prepare_out, create_out, accounts, tx_before,
          sign_pc, sign_i, sign_out, sign_log>>

codec_vars == <<codec_src, codec_n, codec_out>>
digest_vars == <<sh_call, sh_out>>
builder_vars == <<vins, req_vouts, overflow_checks, prepare_out, create_out>>
sign_vars == <<accounts, tx_before, sign_pc, sign_i, sign_out, sign_log>>

\* idle values of the parts a specification does not exercise
EmptyTx == Transaction(U32(0, 0), <<>>, <<>>, U32(0, 0))
NoSplit == <<"none", FALSE>>
NoCall == [called |-> FALSE, input_index |-> 0, script_pubkey |-> <<>>,
           sighash_u32 |-> U32(0, 0)]
NoHash == [status |-> "none", hashed |-> FALSE, tx_raw |-> <<>>, digest |-> NoDigest]
NoResult == [status |-> "none"]

CodecIdle == codec_src = "none" /\ codec_n = U32(0, 0) /\ codec_out = NoSplit
DigestIdle == sh_call = NoCall /\ sh_out = NoHash
BuilderIdle ==
    /\ vins = <<>> /\ req_vouts = <<>> /\ overflow_checks = FALSE
    /\ prepare_out = NoResult /\ create_out = NoResult
SignIdle ==
    /\ accounts = <<>> /\ tx_before = EmptyTx /\ sign_pc = "idle" /\ sign_i = 0
    /\ sign_out = NoResult /\ sign_log = <<>>

\* sequences over S of length at most n
SeqUpTo(S, n) == UNION {[1..k -> S] : k \in 0..n}

\* ------------------------------------------------------------------------
\* Specification of the sighash codec: as_u32, from_u32,
\* split_anyonecanpay_flag applied to flags the caller chooses
\* ------------------------------------------------------------------------
\* every low byte, under several settings of the 24 bits above it
FlagHighParts == {<<0, 0>>, <<0, 1>>, <<0, 128>>, <<1, 0>>, <<32768, 0>>,
                  <<65535, 255>>}

Flags == {U32(h[1], h[2] * 256 + b) : h \in FlagHighParts, b \in 0..255}

InitCodec ==
    /\ codec_src = "none"
    /\ codec_n \in Flags
    /\ codec_out = NoSplit
    /\ tx = EmptyTx
    /\ DigestIdle /\ BuilderIdle /\ SignIdle

\* SigHashType::as_u32 of a type the caller chooses
AsU32(t) ==
    /\ codec_out = NoSplit
    /\ codec_src = "none"
    /\ codec_src' = t
    /\ codec_n' = as_u32(t)
    /\ UNCHANGED <<codec_out, tx, digest_vars, builder_vars, sign_vars>>

\* SigHashType::from_u32(n).split_anyonecanpay_flag(), as signature_hash decodes
Decode ==
    /\ codec_out = NoSplit
    /\ codec_out' = split_anyonecanpay_flag(from_u32(codec_n))
    /\ UNCHANGED <<codec_src, codec_n, tx, digest_vars, builder_vars, sign_vars>>

NextCodec == (\E t \in SigHashTypes : AsU32(t)) \/ Decode

SpecCodec == InitCodec /\ [][NextCodec]_vars

\* C9: decoding the encoding of a base type t gives (t, false)
RoundTrip ==
    (codec_src \in BaseTypes /\ codec_out # NoSplit) => codec_out = <<codec_src, FALSE>>

RoundTripWitness ==
    codec_src = "Single" /\ codec_n = U32(0, 3) /\ codec_out = <<"Single", FALSE>>

\* the value of n & 0x9f, by arithmetic on the low byte of n
Masked9f(n) == (n[2] % 32) + 128 * ((n[2] \div 128) % 2)

DecodeTable(m) ==
    IF m = 1 THEN <<"All", FALSE>>
    ELSE IF m = 2 THEN <<"None", FALSE>>
    ELSE IF m = 3 THEN <<"Single", FALSE>>
    ELSE IF m = 129 THEN <<"All", TRUE>>
    ELSE IF m = 130 THEN <<"None", TRUE>>
    ELSE IF m = 131 THEN <<"Single", TRUE>>
    ELSE IF m >= 128 THEN <<"All", TRUE>>
    ELSE <<"All", FALSE>>

\* C10: decoding is total and is the table of the masked value n & 0x9f;
\* bits 0x20, 0x40 and the bits above 0x80 do not influence the result
DecodeMasks9f ==
    codec_out # NoSplit =>
        /\ codec_out = DecodeTable(Masked9f(codec_n))
        /\ codec_out[1] \in BaseTypes /\ codec_out[2] \in BOOLEAN
        /\ \A f \in Flags :
             Masked9f(f) = Masked9f(codec_n)
                 => split_anyonecanpay_flag(from_u32(f)) = codec_out

DecodeMasks9fWitness ==
    codec_n = U32(65535, 65535) /\ codec_out = <<"All", TRUE>>

\* ------------------------------------------------------------------------
\* Specification of signature_hash as a function: a transaction, an input
\* index, a spent script and a flag drawn from bounded sets
\* ------------------------------------------------------------------------
\* script::Builder::build_p2pkh:
\* OP_DUP OP_HASH160 <20-byte hash> OP_EQUALVERIFY OP_CHECKSIG
build_p2pkh(hash) == <<118, 169, 20>> \o hash \o <<136, 172>>

OutPoints == {OutPoint(Bytes32(170), U32(0, 0)), OutPoint(Bytes32(187), U32(0, 1))}

Sequences == {SEQUENCE_FINAL, U32(65535, 65534), U32(0, 0)}

InputChoices ==
    {TransactionInput(OutPoint(Bytes32(170), U32(0, 0)), <<>>, SEQUENCE_FINAL),
     TransactionInput(OutPoint(Bytes32(187), U32(0, 1)), <<>>, U32(65535, 65534)),
     TransactionInput(OutPoint(Bytes32(170), U32(0, 0)), <<81>>, U32(0, 5))}

OutputChoices ==
    {TransactionOutput(U64(90), build_p2pkh(Bytes20(17))),
     TransactionOutput(<<32768, 0, 0, 0>>, <<106>>)}

OutputVariants ==
    OutputChoices \cup {TransactionOutput(U64(0), build_p2pkh(Bytes20(34)))}

VersionLockChoices == {<<U32(0, 0), U32(0, 0)>>, <<U32(0, 2), U32(0, 500)>>}

TxSet ==
    {Transaction(vl[1], ins, outs, vl[2]) :
        vl \in VersionLockChoices,
        ins \in SeqUpTo(InputChoices, MaxInputs),
        outs \in SeqUpTo(OutputChoices, MaxOutputs)}

SpentScripts == {build_p2pkh(Bytes20(17)), <<81>>}

DigestFlags == {U32(0, 0), U32(0, 1), U32(0, 2), U32(0, 3), U32(0, 129),
                U32(0, 130), U32(0, 131), U32(65535, 65379)}

InitDigest ==
    /\ tx \in TxSet
    /\ DigestIdle /\ CodecIdle /\ BuilderIdle /\ SignIdle

SignatureHash(input_index, script_pubkey, sighash_u32) ==
    /\ ~sh_call.called
    /\ sh_call' = [called |-> TRUE, input_index |-> input_index,
                   script_pubkey |-> script_pubkey, sighash_u32 |-> sighash_u32]
    /\ sh_out' = signature_hash(tx, input_index, script_pubkey, sighash_u32)
    /\ UNCHANGED <<tx, codec_vars, builder_vars, sign_vars>>

NextDigest ==
    \E i \in 0..Len(tx.inputs), spk \in SpentScripts, f \in DigestFlags :
        SignatureHash(i, spk, f)

SpecDigest == InitDigest /\ [][NextDigest]_vars

\* C1: whenever signature_hash double-hashes a byte string, that string is
\* the serialized scratch transaction followed by the 4-byte little-endian
\* encoding of the flag that was passed in
PreimageEndsWithFlag ==
    sh_out.hashed =>
        sh_out.tx_raw =
            Serialize(tx_tmp(tx, sh_call.input_index, sh_call.script_pubkey,
                             sh_call.sighash_u32))
                \o LE32(sh_call.sighash_u32)

\* C4: for flag 0x03 or 0x83, an in-range input index and no output at that
\* index, the digest is the byte 1 followed by 31 zero bytes, whatever the
\* rest of the transaction and the spent script are
SingleBugDigest ==
    (/\ sh_call.called
     /\ sh_call.sighash_u32 \in {U32(0, 3), U32(0, 131)}
     /\ sh_call.input_index < Len(tx.inputs)
     /\ sh_call.input_index >= Len(tx.outputs))
        => /\ sh_out.status = "ok"
           /\ ~sh_out.hashed
           /\ sh_out.digest = H256From(<<1, 0, 0, 0, 0, 0, 0, 0,
                                         0, 0, 0, 0, 0, 0, 0, 0,
                                         0, 0, 0, 0, 0, 0, 0, 0,
                                         0, 0, 0, 0, 0, 0, 0, 0>>)

SingleBugDigestWitness ==
    /\ sh_call.called
    /\ sh_call.sighash_u32 = U32(0, 131)
    /\ sh_call.input_index = 1
    /\ Len(tx.inputs) = 2
    /\ Len(tx.outputs) = 1
    /\ tx.version = U32(0, 2)
    /\ sh_out.digest = SingleBugValue

\* transactions equal to t except for the previous_output and sequence of
\* inputs other than the one at input_index
OtherInputVariants(t, input_index) ==
    {[t EXCEPT !.inputs =
        [n \in 1..Len(t.inputs) |->
            IF n - 1 = input_index THEN t.inputs[n]
            ELSE [t.inputs[n] EXCEPT !.previous_output = c[n][1],
                                     !.sequence = c[n][2]]]] :
        c \in [1..Len(t.inputs) -> OutPoints \X Sequences]}

\* C7: for flag 0x81, changing the previous_output or sequence of the other
\* inputs changes neither the hashed bytes nor the digest
AnyoneCanPayIsolation ==
    (sh_call.called /\ sh_out.status = "ok" /\ sh_call.sighash_u32 = U32(0, 129)) =>
        \A t2 \in OtherInputVariants(tx, sh_call.input_index) :
            signature_hash(t2, sh_call.input_index, sh_call.script_pubkey,
                           sh_call.sighash_u32) = sh_out

AnyoneCanPayIsolationWitness ==
    /\ sh_call.called
    /\ sh_call.sighash_u32 = U32(0, 129)
    /\ sh_call.input_index = 0
    /\ Len(tx.inputs) = 2
    /\ sh_out.hashed
    /\ Cardinality({t2.inputs[2] : t2 \in OtherInputVariants(tx, 0)}) > 1

\* transactions equal to t except for the value and script_pubkey of outputs
OutputVariantsOf(t) ==
    {[t EXCEPT !.outputs = outs] : outs \in [1..Len(t.outputs) -> OutputVariants]}

\* C8: for flag 0x02, changing the value or script_pubkey of any output
\* changes neither the hashed bytes nor the digest
NoneWipesOutputs ==
    (sh_call.called /\ sh_out.status = "ok" /\ sh_call.sighash_u32 = U32(0, 2)) =>
        \A t2 \in OutputVariantsOf(tx) :
            signature_hash(t2, sh_call.input_index, sh_call.script_pubkey,
                           sh_call.sighash_u32) = sh_out

NoneWipesOutputsWitness ==
    /\ sh_call.called
    /\ sh_call.sighash_u32 = U32(0, 2)
    /\ sh_call.input_index = 1
    /\ Len(tx.outputs) = 2
    /\ sh_out.hashed
    /\ Cardinality(OutputVariantsOf(tx)) > 1

\* the base type and anyone-can-pay bit of the call's flag, by the table of
\* the masked flag
CallSplit == DecodeTable(Masked9f(sh_call.sighash_u32))

\* the scratch inputs as described: one per input, in order, with the
\* original previous_output; the target carries the spent script and its
\* sequence, the others an empty script and sequence 0 for Single and None
DescribedInputs ==
    [n \in 1..Len(tx.inputs) |->
        [previous_output |-> tx.inputs[n].previous_output,
         script_sig |-> IF n = sh_call.input_index + 1
                        THEN sh_call.script_pubkey ELSE <<>>,
         sequence |-> IF n = sh_call.input_index + 1 THEN tx.inputs[n].sequence
                      ELSE IF CallSplit[1] \in {"Single", "None"} THEN U32(0, 0)
                      ELSE tx.inputs[n].sequence,
         script_witness |-> <<>>]]

DescribedInputBytes ==
    LE32(tx.version) \o CompactInt(Len(DescribedInputs))
        \o Concat([n \in 1..Len(DescribedInputs) |-> SerializeInput(DescribedInputs[n])])

\* C12: without anyone-can-pay (and outside the sighash-single special
\* case) the scratch transaction that is hashed has one input per original
\* input, in order, with the original previous_output; the target input has
\* the spent script and its sequence, every other input an empty script_sig
\* and sequence 0 for Single and None, its own sequence for All
ScratchInputsAsDescribed ==
    (sh_out.hashed /\ ~CallSplit[2]) =>
        /\ tx_tmp(tx, sh_call.input_index, sh_call.script_pubkey,
                  sh_call.sighash_u32).inputs = DescribedInputs
        /\ SubSeq(sh_out.tx_raw, 1, Len(DescribedInputBytes)) = DescribedInputBytes

ScratchInputsAsDescribedWitness ==
    /\ sh_out.hashed
    /\ sh_call.sighash_u32 = U32(0, 3)
    /\ sh_call.input_index = 0
    /\ Len(tx.inputs) = 2
    /\ tx.inputs[2].sequence # U32(0, 0)
    /\ tx.inputs[2].script_sig # <<>>
    /\ DescribedInputs[2].sequence = U32(0, 0)
    /\ DescribedInputs[2].script_sig = <<>>

\* ------------------------------------------------------------------------
\* Specification of the builder: prepare_rawtx, then create_rawtx on what
\* it resolved
\* ------------------------------------------------------------------------
\* str::parse::<Address>: the address strings of the model and what they
\* decode to
ParseAddress(str) ==
    IF str = "1PayToPubkeyHash"
    THEN [ok |-> TRUE, kind |-> "P2PKH", hash |-> Bytes20(17)]
    ELSE IF str = "3PayToScriptHash"
    THEN [ok |-> TRUE, kind |-> "P2SH", hash |-> Bytes20(34)]
    ELSE [ok |-> FALSE, kind |-> "P2PKH", hash |-> <<>>]

\* str::parse::<H256>: 64 hex digits, or an error
ParseH256(str) ==
    IF str = "aa..aa" THEN [ok |-> TRUE, hash |-> Bytes32(170)]
    ELSE IF str = "bb..bb" THEN [ok |-> TRUE, hash |-> Bytes32(187)]
    ELSE [ok |-> FALSE, hash |-> <<>>]

\* script::Builder::build_p2sh: OP_HASH160 <20-byte hash> OP_EQUAL
build_p2sh(hash) == <<169, 20>> \o hash \o <<135>>

\* script::Builder::push_bytes of at most 75 bytes
push_bytes(data) == <<Len(data)>> \o data

\* script::Builder::return_bytes: OP_RETURN followed by the pushed payload
return_bytes(data) == <<106>> \o push_bytes(data)

TxInputReq(txid, index, address, credit) ==
    [txid |-> txid, index |-> index, address |-> address, credit |-> credit]

TxOutputReq(address, value) == [address |-> address, value |-> value]

VinChoices ==
    {TxInputReq("aa..aa", U32(0, 0), "1PayToPubkeyHash", U64(100)),
     TxInputReq("not hex", U32(0, 1), "1PayToPubkeyHash", U64(100)),
     TxInputReq("bb..bb", U32(0, 1), "3PayToScriptHash", <<32768, 0, 0, 0>>)}

VoutChoices ==
    {TxOutputReq("1PayToPubkeyHash", U64(90)),
     TxOutputReq("1PayToPubkeyHash", U64(101)),
     TxOutputReq("3PayToScriptHash", U64(90)),
     TxOutputReq("not an address", U64(90)),
     TxOutputReq("1PayToPubkeyHash", <<32768, 0, 0, 0>>)}

\* iter().fold(0, |acc, x| acc + x) on u64: the wrapped sum and whether
\* some addition overflowed
RECURSIVE FoldAdd(_, _)
FoldAdd(acc, amounts) ==
    IF amounts = <<>> THEN acc
    ELSE LET r == AddU64(acc.sum, Head(amounts))
         IN  FoldAdd([sum |-> r.sum, overflow |-> acc.overflow \/ r.overflow],
                     Tail(amounts))

Fold0(amounts) == FoldAdd([sum |-> U64(0), overflow |-> FALSE], amounts)

not_enough(total_in, total_out) == LtU64(total_in, total_out)

\* the loop over req_vouts: the resolved outputs, or the first parse error
RECURSIVE resolve_vouts(_)
resolve_vouts(reqs) ==
    IF reqs = <<>> THEN [ok |-> TRUE, vouts |-> <<>>]
    ELSE LET addr == ParseAddress(Head(reqs).address)
             rest == resolve_vouts(Tail(reqs))
         IN  IF ~addr.ok THEN [ok |-> FALSE, vouts |-> <<>>]
             ELSE IF ~rest.ok THEN rest
             ELSE [ok |-> TRUE,
                   vouts |->
                     <<IF addr.kind = "P2PKH"
                       THEN [form |-> "Address", kind |-> addr.kind,
                             hash |-> addr.hash, amount |-> Head(reqs).value,
                             script_data |-> <<>>]
                       ELSE [form |-> "ScriptData", kind |-> addr.kind,
                             hash |-> <<>>, amount |-> U64(0),
                             script_data |-> <<>>]>> \o rest.vouts]

prepare_rawtx(ins, reqs, checks) ==
    LET total_out == Fold0([k \in 1..Len(reqs) |-> reqs[k].value])
        total_in == Fold0([k \in 1..Len(ins) |-> ins[k].credit])
        res == resolve_vouts(reqs)
    IN  IF checks /\ (total_out.overflow \/ total_in.overflow)
        THEN [status |-> "panic", vouts |-> <<>>]
        ELSE IF not_enough(total_in.sum, total_out.sum)
        THEN [status |-> "NotEnoughAmount", vouts |-> <<>>]
        ELSE IF ~res.ok THEN [status |-> "AddressParseError", vouts |-> <<>>]
        ELSE IF Len(res.vouts) = 0 THEN [status |-> "PrepareRawTxError", vouts |-> <<>>]
        ELSE [status |-> "Ok", vouts |-> res.vouts]

\* the loop over vins: the inputs, or the first txid parse error
RECURSIVE create_inputs(_)
create_inputs(ins) ==
    IF ins = <<>> THEN [ok |-> TRUE, inputs |-> <<>>]
    ELSE LET h == ParseH256(Head(ins).txid)
             rest == create_inputs(Tail(ins))
         IN  IF ~h.ok THEN [ok |-> FALSE, inputs |-> <<>>]
             ELSE IF ~rest.ok THEN rest
             ELSE [ok |-> TRUE,
                   inputs |->
                     <<TransactionInput(OutPoint(h.hash, Head(ins).index), <<>>,
                                        SEQUENCE_FINAL)>> \o rest.inputs]

create_output(vout) ==
    IF vout.form = "Address"
    THEN TransactionOutput(vout.amount,
                           IF vout.kind = "P2PKH" THEN build_p2pkh(vout.hash)
                           ELSE build_p2sh(vout.hash))
    ELSE TransactionOutput(U64(0), return_bytes(vout.script_data))

create_rawtx(ins, vouts) ==
    LET res == create_inputs(ins)
        outputs == [k \in 1..Len(vouts) |-> create_output(vouts[k])]
    IN  IF ~res.ok THEN [status |-> "TxidParseError", tx |-> EmptyTx]
        ELSE IF Len(res.inputs) = 0 \/ Len(outputs) = 0
        THEN [status |-> "GreateRawTxError", tx |-> EmptyTx]
        ELSE [status |-> "Ok",
              tx |-> Transaction(U32(0, 0), res.inputs, outputs, U32(0, 0))]

Init ==
    /\ vins \in SeqUpTo(VinChoices, MaxVins)
    /\ req_vouts \in SeqUpTo(VoutChoices, MaxVouts)
    /\ overflow_checks \in BOOLEAN
    /\ prepare_out = NoResult
    /\ create_out = NoResult
    /\ tx = EmptyTx
    /\ CodecIdle /\ DigestIdle /\ SignIdle

PrepareRawtx ==
    /\ prepare_out = NoResult
    /\ prepare_out' = prepare_rawtx(vins, req_vouts, overflow_checks)
    /\ UNCHANGED <<vins, req_vouts, overflow_checks, create_out, tx,
                   codec_vars, digest_vars, sign_vars>>

CreateRawtx ==
    /\ prepare_out.status = "Ok"
    /\ create_out = NoResult
    /\ LET r == create_rawtx(vins, prepare_out.vouts)
       IN  /\ create_out' = [status |-> r.status]
           /\ tx' = r.tx
    /\ UNCHANGED <<vins, req_vouts, overflow_checks, prepare_out,
                   codec_vars, digest_vars, sign_vars>>

Next == PrepareRawtx \/ CreateRawtx

Spec == Init /\ [][Next]_vars

\* the sum of u64 amounts as a number: five limbs, the first the carry out
\* of 64 bits
RECURSIVE WideSum(_)
WideSum(amounts) ==
    IF amounts = <<>> THEN <<0, 0, 0, 0, 0>>
    ELSE LET w == WideSum(Tail(amounts))
             a == Head(amounts)
             s4 == a[4] + w[5]
             s3 == a[3] + w[4] + (s4 \div Limb)
             s2 == a[2] + w[3] + (s3 \div Limb)
             s1 == a[1] + w[2] + (s2 \div Limb)
         IN  <<w[1] + (s1 \div Limb), s1 % Limb, s2 % Limb, s3 % Limb, s4 % Limb>>

WideLt(a, b) ==
    \E k \in 1..5 : a[k] < b[k] /\ \A j \in 1..(k - 1) : a[j] = b[j]

SumCredits == WideSum([k \in 1..Len(vins) |-> vins[k].credit])
SumRequested == WideSum([k \in 1..Len(req_vouts) |-> req_vouts[k].value])

\* C5: prepare_rawtx returns NotEnoughAmount exactly when the requested
\* output values sum to more than the input credits, and a transaction that
\* was built has input credits >= the sum of its output values
BalanceChecked ==
    /\ prepare_out # NoResult =>
          (prepare_out.status = "NotEnoughAmount" <=> WideLt(SumCredits, SumRequested))
    /\ create_out.status = "Ok" =>
          ~WideLt(SumCredits, WideSum([k \in 1..Len(tx.outputs) |-> tx.outputs[k].value]))

\* C6: a transaction returned by create_rawtx has version 2
BuiltVersionIsTwo ==
    create_out.status = "Ok" => tx.version = U32(0, 2)

\* ------------------------------------------------------------------------
\* Specification of the signer: sign_rawtx on a transaction and accounts the
\* caller supplies, one step per iteration of its loop
\* ------------------------------------------------------------------------
\* key_ok: whether Private::sign succeeds with this account's key
Account(key, key_ok, kind, hash) ==
    [key |-> key, key_ok |-> key_ok, kind |-> kind, hash |-> hash]

AccountChoices ==
    {Account(1, TRUE, "P2PKH", Bytes20(17)),
     Account(2, FALSE, "P2PKH", Bytes20(51)),
     Account(3, TRUE, "P2SH", Bytes20(34))}

\* KeyPair::public(): a compressed public key
public(key) == <<2>> \o Bytes32(key)

\* Private::sign: the DER signature of digest under key, kept as one
\* symbolic element
sign(key, digest) == <<[der_signature |-> [key |-> key, digest |-> digest]]>>

\* more accounts than inputs are let through
sign_rawtx_rejects_fewer(t, accs) ==
    Len(t.inputs) = 0 \/ Len(t.inputs) > Len(accs)

\* the check at the head of sign_rawtx
sign_rawtx_rejects(t, accs) ==
    Len(t.inputs) = 0 \/ Len(t.inputs) # Len(accs)

\* the flag byte is not appended to the signature
sign_rawtx_script_noflag(t, i, account) ==
    LET pk_script == build_p2pkh(account.hash)
        serialized_sig == sign(account.key,
                               signature_hash(t, i, pk_script, U32(0, 1)).digest)
    IN  push_bytes(serialized_sig) \o push_bytes(public(account.key))

\* the script_sig sign_rawtx writes for input i of t
sign_rawtx_script(t, i, account) ==
    LET pk_script == build_p2pkh(account.hash)
        serialized_sig == sign(account.key,
                               signature_hash(t, i, pk_script, U32(0, 1)).digest)
        serialized_sig_vec == serialized_sig \o <<1>>
    IN  push_bytes(serialized_sig_vec) \o push_bytes(public(account.key))

InitSign ==
    /\ tx \in TxSet
    /\ accounts \in SeqUpTo(AccountChoices, MaxAccounts)
    /\ tx_before = EmptyTx
    /\ sign_pc = "idle"
    /\ sign_i = 0
    /\ sign_out = NoResult
    /\ sign_log = <<>>
    /\ CodecIdle /\ DigestIdle /\ BuilderIdle

\* the call and the check of its arguments
SignRawtxCall ==
    /\ sign_pc = "idle"
    /\ tx_before' = tx
    /\ IF sign_rawtx_rejects(tx, accounts)
       THEN /\ sign_out' = [status |-> "GreateRawTxError"]
            /\ sign_pc' = "done"
       ELSE /\ sign_out' = sign_out
            /\ sign_pc' = "loop"
    /\ UNCHANGED <<tx, accounts, sign_i, sign_log, codec_vars, digest_vars,
                   builder_vars>>

\* one iteration of the loop, for i = sign_i
SignRawtxInput ==
    /\ sign_pc = "loop"
    /\ sign_i < Len(tx.inputs)
    /\ LET account == accounts[sign_i + 1]
       IN  IF account.kind = "P2PKH"
           THEN IF account.key_ok
                THEN /\ tx' = [tx EXCEPT !.inputs[sign_i + 1].script_sig =
                                    sign_rawtx_script(tx, sign_i, account)]
                     /\ sign_log' = Append(sign_log,
                            [index |-> sign_i,
                             digest |-> signature_hash(tx, sign_i,
                                            build_p2pkh(account.hash),
                                            U32(0, 1)).digest])
                     /\ sign_i' = sign_i + 1
                     /\ UNCHANGED <<sign_pc, sign_out>>
                ELSE /\ sign_out' = [status |-> "SignRawTxError"]
                     /\ sign_pc' = "done"
                     /\ UNCHANGED <<tx, sign_i, sign_log>>
           ELSE /\ sign_out' = [status |-> "NotSupportedAddressFormError"]
                /\ sign_pc' = "done"
                /\ UNCHANGED <<tx, sign_i, sign_log>>
    /\ UNCHANGED <<accounts, tx_before, codec_vars, digest_vars, builder_vars>>

\* the loop is over: Ok(serialization::serialize(tx))
SignRawtxReturn ==
    /\ sign_pc = "loop"
    /\ sign_i = Len(tx.inputs)
    /\ sign_out' = [status |-> "Ok", bytes |-> Serialize(tx)]
    /\ sign_pc' = "done"
    /\ UNCHANGED <<tx, accounts, tx_before, sign_i, sign_log, codec_vars,
                   digest_vars, builder_vars>>

NextSign == SignRawtxCall \/ SignRawtxInput \/ SignRawtxReturn

SpecSign == InitSign /\ [][NextSign]_vars

\* C2: when some account is of kind P2SH (there is one account per input
\* and no signing fails), sign_rawtx returns NotSupportedAddressFormError
\* and every script_sig is as it was before the call
P2shLeavesTxUnsigned ==
    (/\ sign_pc = "done"
     /\ Len(tx_before.inputs) > 0
     /\ Len(accounts) = Len(tx_before.inputs)
     /\ \A k \in 1..Len(accounts) : accounts[k].key_ok
     /\ \E k \in 1..Len(accounts) : accounts[k].kind = "P2SH")
        => /\ sign_out.status = "NotSupportedAddressFormError"
           /\ \A n \in 1..Len(tx.inputs) :
                tx.inputs[n].script_sig = tx_before.inputs[n].script_sig

\* C3: called on a transaction without inputs, or with a number of accounts
\* other than the number of inputs, sign_rawtx returns GreateRawTxError and
\* leaves the transaction as it was
MismatchLeavesTxUnchanged ==
    (/\ sign_pc = "done"
     /\ (Len(tx_before.inputs) = 0 \/ Len(accounts) # Len(tx_before.inputs)))
        => /\ sign_out.status = "GreateRawTxError"
           /\ tx = tx_before

MismatchLeavesTxUnchangedWitness ==
    /\ sign_pc = "done"
    /\ Len(tx_before.inputs) = 2
    /\ Len(accounts) = 1
    /\ sign_out.status = "GreateRawTxError"
    /\ tx = tx_before

\* a script_sig that is a push of (signature, flag byte 0x01) followed by a
\* push of the public key of account
IsSigScript(script, account) ==
    /\ Len(script) = 3 + 1 + Len(public(account.key))
    /\ script[1] = 2
    /\ script[2].der_signature.key = account.key
    /\ script[3] = 1
    /\ script[4] = Len(public(account.key))
    /\ SubSeq(script, 5, Len(script)) = public(account.key)

SignedWhenOk ==
    sign_out.status = "Ok" =>
        /\ sign_i = Len(tx.inputs)
        /\ \A n \in 1..Len(tx.inputs) :
             /\ tx.inputs[n].script_sig # <<>>
             /\ IsSigScript(tx.inputs[n].script_sig, accounts[n])

\* a step that changes tx writes the script_sig of input sign_i and nothing
\* else, and moves on to the next index; no other step moves the index
WritesInOrder ==
    /\ tx' # tx =>
         /\ sign_i' = sign_i + 1
         /\ tx' = [tx EXCEPT !.inputs[sign_i + 1].script_sig =
                        tx'.inputs[sign_i + 1].script_sig]
         /\ Len(tx'.inputs[sign_i + 1].script_sig) > 1
    /\ sign_i' # sign_i => (sign_i' = sign_i + 1 /\ tx' # tx)

\* C11: when sign_rawtx returns Ok every script_sig is a push of the
\* signature with flag byte 0x01 followed by a push of the account's public
\* key, and each was written exactly once, for the indices 0, 1, .. in turn
SignedOnceInOrder == [](sign_pc = "idle" => sign_i = 0) /\ []SignedWhenOk /\ [][WritesInOrder]_vars

SignedOnceInOrderWitness ==
    /\ sign_out.status = "Ok"
    /\ Len(tx.inputs) = 2
    /\ sign_i = 2
    /\ \A n \in 1..2 : IsSigScript(tx.inputs[n].script_sig, accounts[n])

\* the digest signature_hash returns for input index of the transaction as
\* it was before the call, with the script of the account at that index
DigestOfOriginal(index) ==
    signature_hash(tx_before, index, build_p2pkh(accounts[index + 1].hash),
                   U32(0, 1)).digest

\* C13: the digest signed for input i is the digest of input i of the
\* transaction as it was before sign_rawtx wrote any script_sig, so the
\* signatures do not depend on the order in which the inputs are signed
DigestIgnoresEarlierSignatures ==
    /\ Len(sign_log) = sign_i
    /\ \A k \in 1..Len(sign_log) :
         /\ sign_log[k].index = k - 1
         /\ sign_log[k].digest = DigestOfOriginal(k - 1)
         /\ tx.inputs[k].script_sig[2].der_signature.digest = DigestOfOriginal(k - 1)

DigestIgnoresEarlierSignaturesWitness ==
    /\ sign_out.status = "Ok"
    /\ Len(sign_log) = 2
    /\ Len(tx.inputs[1].script_sig) > Len(tx_before.inputs[1].script_sig)
    /\ sign_log[2].digest = DigestOfOriginal(1)
    /\ sign_log[2].digest # sign_log[1].digest

====
